---- MODULE Spec2Model ----
(***************************************************************************)
(* A model of bril-txt/vriltxt.py: the grammar-driven parser of the Vril   *)
(* text format (parse_bril), its lowering to the JSON program structure    *)
(* (JSONTransformer) and the pretty-printer (print_prog).                  *)
(*                                                                         *)
(* Text is a sequence of one-character strings, so that lexing, integer    *)
(* conversion and formatting are computed character by character.          *)
(***************************************************************************)
EXTENDS Integers, Sequences, FiniteSets, TLC

(***************************************************************************)
(* Character classes of the terminals (lark common.lark and GRAMMAR).      *)
(***************************************************************************)
LCASE_LETTER ==
    {"a","b","c","d","e","f","g","h","i","j","k","l","m",
     "n","o","p","q","r","s","t","u","v","w","x","y","z"}

UCASE_LETTER ==
    {"A","B","C","D","E","F","G","H","I","J","K","L","M",
     "N","O","P","Q","R","S","T","U","V","W","X","Y","Z"}

LETTER == LCASE_LETTER \cup UCASE_LETTER

DIGIT == {"0","1","2","3","4","5","6","7","8","9"}

WS == {" ", "\t", "\f", "\r", "\n"}

\* the position after the longest run of characters of cls starting at i
RECURSIVE ScanWhile(_, _, _)
ScanWhile(txt, i, cls) ==
    IF i <= Len(txt) /\ txt[i] \in cls THEN ScanWhile(txt, i + 1, cls) ELSE i

\* the position after the longest run of characters not in cls starting at i
RECURSIVE ScanUntil(_, _, _)
ScanUntil(txt, i, cls) ==
    IF i <= Len(txt) /\ txt[i] \notin cls THEN ScanUntil(txt, i + 1, cls) ELSE i

\* a terminal matcher answers the position after the match, or 0 for no match
MatchStr(txt, i, s) ==
    IF i + Len(s) - 1 <= Len(txt) /\ SubSeq(txt, i, i + Len(s) - 1) = s
    THEN i + Len(s) ELSE 0

MatchClass(txt, i, first, rest) ==
    IF i <= Len(txt) /\ txt[i] \in first THEN ScanWhile(txt, i + 1, rest) ELSE 0

CNAME(txt, i) ==
    MatchClass(txt, i, {"_"} \cup LETTER, {"_"} \cup LETTER \cup DIGIT)

\* IDENT with the brackets of AIDENT let in
IDENT_withBrackets(txt, i) ==
    MatchClass(txt, i, {"_", "%"} \cup LETTER,
               {"_", "%", ".", "[", "]"} \cup LETTER \cup DIGIT)

IDENT(txt, i) ==
    MatchClass(txt, i, {"_", "%"} \cup LETTER,
               {"_", "%", "."} \cup LETTER \cup DIGIT)

AIDENT(txt, i) ==
    MatchClass(txt, i, {"_", "%"} \cup LETTER,
               {"_", "%", ".", "[", "]"} \cup LETTER \cup DIGIT)

SIGNED_INT(txt, i) ==
    LET j == IF i <= Len(txt) /\ txt[i] \in {"+", "-"} THEN i + 1 ELSE i
    IN  IF j <= Len(txt) /\ txt[j] \in DIGIT THEN ScanWhile(txt, j, DIGIT) ELSE 0

BOOL(txt, i) ==
    IF MatchStr(txt, i, <<"t","r","u","e">>) # 0
    THEN MatchStr(txt, i, <<"t","r","u","e">>)
    ELSE MatchStr(txt, i, <<"f","a","l","s","e">>)

\* %ignore WS, %ignore COMMENT: the position of the next token at or after i
RECURSIVE Ignore(_, _)
Ignore(txt, i) ==
    IF i > Len(txt) THEN i
    ELSE IF txt[i] \in WS THEN Ignore(txt, ScanWhile(txt, i, WS))
    ELSE IF txt[i] = "#" THEN Ignore(txt, ScanUntil(txt, i + 1, {"\n"}))
    ELSE i

(***************************************************************************)
(* Words of the format, as character sequences.                            *)
(***************************************************************************)
K_init == <<"i","n","i","t">>

K_const == <<"c","o","n","s","t">>

K_true == <<"t","r","u","e">>

\* the anonymous (filtered) terminals of GRAMMAR
Anon ==
    [colon |-> <<":">>, eq |-> <<"=">>, semi |-> <<";">>,
     lbrace |-> <<"{">>, rbrace |-> <<"}">>,
     init |-> K_init, const |-> K_const]

(***************************************************************************)
(* GRAMMAR: the six instruction rules, each a sequence of symbols.         *)
(* A symbol is a named terminal (kept as a child), an anonymous terminal   *)
(* (filtered out of the children), a starred named terminal, or one of     *)
(* the nonterminals type and lit.                                          *)
(***************************************************************************)
T(n) == [k |-> "term", n |-> n]

A(n) == [k |-> "anon", n |-> n]

Star(n) == [k |-> "star", n |-> n]

N(n) == [k |-> "rule", n |-> n]

RuleNames == {"init", "const", "vop", "aop", "eop", "label"}

GRAMMAR ==
    [init  |-> <<T("IDENT"), A("colon"), N("type"), A("eq"), A("init"),
                 N("lit"), A("semi")>>,
     const |-> <<T("IDENT"), A("colon"), N("type"), A("eq"), A("const"),
                 N("lit"), A("semi")>>,
     vop   |-> <<T("IDENT"), A("colon"), N("type"), A("eq"), T("CNAME"),
                 Star("IDENT"), A("semi")>>,
     aop   |-> <<T("AIDENT"), A("colon"), N("type"), A("eq"), T("CNAME"),
                 Star("AIDENT"), A("semi")>>,
     eop   |-> <<T("CNAME"), Star("IDENT"), A("semi")>>,
     label |-> <<T("IDENT"), A("colon")>>]

\* the priorities in the order of the alternatives of instr, reversed
Priority_reversed ==
    [init |-> 1, const |-> 2, vop |-> 3, aop |-> 4, eop |-> 5, label |-> 6]

\* the rule priorities init.6, const.5, vop.4, aop.3, eop.2, label.1
Priority ==
    [init |-> 6, const |-> 5, vop |-> 4, aop |-> 3, eop |-> 2, label |-> 1]

Terminal(n, txt, i) ==
    CASE n = "IDENT"  -> IDENT(txt, i)
      [] n = "AIDENT" -> AIDENT(txt, i)
      [] n = "CNAME"  -> CNAME(txt, i)

NoMatch == [ok |-> FALSE, end |-> 0, items |-> <<>>, lit |-> "none"]

\* F of v, with v evaluated once
Once(v, F(_)) == CHOOSE y \in {F(x) : x \in {v}} : TRUE

\* the match r of the rest of a rule, with the token txt[p..e-1] kept as
\* the first child
Kept(txt, p, e, r) ==
    IF ~r.ok THEN NoMatch ELSE [r EXCEPT !.items = <<SubSeq(txt, p, e - 1)>> \o @]

(***************************************************************************)
(* The derivation of a symbol sequence from position i.  Ignored text may  *)
(* precede every token; a terminal takes its longest match (the dynamic    *)
(* lexer's regular-expression match).  A starred terminal is followed in   *)
(* every rule by ";", which no identifier matches, so taking identifiers   *)
(* while they match finds the only derivation.                             *)
(***************************************************************************)
RECURSIVE MatchSeq(_, _, _)
MatchSeq(syms, txt, i) ==
    IF syms = <<>> THEN [ok |-> TRUE, end |-> i, items |-> <<>>, lit |-> "none"]
    ELSE
    LET s == Head(syms)
        p == Ignore(txt, i)
    IN
    CASE s.k = "anon" ->
           LET e == MatchStr(txt, p, Anon[s.n])
           IN  IF e = 0 THEN NoMatch ELSE MatchSeq(Tail(syms), txt, e)
      [] s.k = "term" ->
           LET e == Terminal(s.n, txt, p)
           IN  IF e = 0 THEN NoMatch
               ELSE Once(MatchSeq(Tail(syms), txt, e), LAMBDA r : Kept(txt, p, e, r))
      [] s.k = "star" ->
           LET e == Terminal(s.n, txt, p)
           IN  IF e = 0 THEN MatchSeq(Tail(syms), txt, i)
               ELSE Once(MatchSeq(syms, txt, e), LAMBDA r : Kept(txt, p, e, r))
      [] s.k = "rule" /\ s.n = "type" ->
           LET e == CNAME(txt, p)
           IN  IF e = 0 THEN NoMatch
               ELSE Once(MatchSeq(Tail(syms), txt, e), LAMBDA r : Kept(txt, p, e, r))
      [] s.k = "rule" /\ s.n = "lit" ->
           LET ei == SIGNED_INT(txt, p)
               eb == BOOL(txt, p)
               e  == IF ei # 0 THEN ei ELSE eb
           IN  IF e = 0 THEN NoMatch
               ELSE Once(MatchSeq(Tail(syms), txt, e),
                         LAMBDA r : IF ~r.ok THEN NoMatch
                                    ELSE [Kept(txt, p, e, r) EXCEPT
                                            !.lit = IF ei # 0 THEN "int" ELSE "bool"])

ParseFail == [ok |-> FALSE, end |-> 0, nodes |-> <<>>]

\* the rules that derive an instruction at i, each with its match
Matches(txt, i) ==
    { y \in { <<r, MatchSeq(GRAMMAR[r], txt, i)>> : r \in RuleNames } : y[2].ok }

(***************************************************************************)
(* instr* "}" from position i, given the matches MS at i and the parses RS *)
(* of the rest after each match (pairs of a position and the parse from    *)
(* it).  Every rule that derives an instruction at i and leaves a          *)
(* derivable rest is a candidate; of the candidates the rule of the        *)
(* highest priority is taken (ambiguity='resolve').                        *)
(***************************************************************************)
ResolveBlock(txt, i, MS, RS) ==
    LET Rest(e) == (CHOOSE x \in RS : x[1] = e)[2]
        cands == {x \in MS : Rest(x[2].end).ok}
        best  == CHOOSE x \in cands : \A y \in cands : Priority[x[1]] >= Priority[y[1]]
        close == MatchStr(txt, Ignore(txt, i), Anon.rbrace)
    IN  IF cands # {}
        THEN [ok |-> TRUE, end |-> Rest(best[2].end).end,
              nodes |-> <<[rule |-> best[1], items |-> best[2].items,
                           lit |-> best[2].lit]>> \o Rest(best[2].end).nodes]
        ELSE IF close # 0 THEN [ok |-> TRUE, end |-> close, nodes |-> <<>>]
        ELSE ParseFail

RECURSIVE ParseBlock(_, _)
ParseBlock(txt, i) ==
    Once(Matches(txt, i), LAMBDA MS :
        Once({ <<e, ParseBlock(txt, e)>> : e \in {x[2].end : x \in MS} }, LAMBDA RS :
            ResolveBlock(txt, i, MS, RS)))

\* start: func*   func: CNAME "{" instr* "}"
RECURSIVE ParseStart(_, _)
ParseStart(txt, i) ==
    LET p    == Ignore(txt, i)
        e    == CNAME(txt, p)
        open == IF e = 0 THEN 0 ELSE MatchStr(txt, Ignore(txt, e), Anon.lbrace)
    IN  IF p > Len(txt) THEN [ok |-> TRUE, end |-> p, nodes |-> <<>>]
        ELSE IF open = 0 THEN ParseFail
        ELSE Once(ParseBlock(txt, open), LAMBDA b :
                IF ~b.ok THEN ParseFail
                ELSE Once(ParseStart(txt, b.end), LAMBDA rest :
                        IF ~rest.ok THEN ParseFail
                        ELSE [ok |-> TRUE, end |-> rest.end,
                              nodes |-> <<[name |-> SubSeq(txt, p, e - 1),
                                           instrs |-> b.nodes]>> \o rest.nodes]))

\* a parse that answers the empty tree where the text has no derivation
LarkParse_swallow(txt) ==
    LET r == ParseStart(txt, 1)
    IN  [exc |-> "none", tree |-> IF r.ok THEN r.nodes ELSE <<>>]

\* lark.Lark(GRAMMAR).parse(txt): the tree, or the exception raised
LarkParse(txt) ==
    LET r == ParseStart(txt, 1)
    IN  IF r.ok THEN [exc |-> "none", tree |-> r.nodes]
        ELSE [exc |-> "UnexpectedInput", tree |-> <<>>]

(***************************************************************************)
(* Python's int(str) and str(int) on decimal numerals, and str.lower().    *)
(***************************************************************************)
DigitVal ==
    [c \in DIGIT |->
        CASE c = "0" -> 0 [] c = "1" -> 1 [] c = "2" -> 2 [] c = "3" -> 3
          [] c = "4" -> 4 [] c = "5" -> 5 [] c = "6" -> 6 [] c = "7" -> 7
          [] c = "8" -> 8 [] c = "9" -> 9]

DigitChar == <<"0","1","2","3","4","5","6","7","8","9">>

RECURSIVE DigitsToNat(_, _)
DigitsToNat(ds, acc) ==
    IF ds = <<>> THEN acc
    ELSE DigitsToNat(Tail(ds), acc * 10 + DigitVal[Head(ds)])

\* int(s) for a SIGNED_INT token s
PyInt(s) ==
    CASE Head(s) = "-" -> 0 - DigitsToNat(Tail(s), 0)
      [] Head(s) = "+" -> DigitsToNat(Tail(s), 0)
      [] OTHER         -> DigitsToNat(s, 0)

RECURSIVE NatToDigits(_)
NatToDigits(n) ==
    IF n < 10 THEN <<DigitChar[n + 1]>>
    ELSE NatToDigits(n \div 10) \o <<DigitChar[(n % 10) + 1]>>

\* A JSON scalar of a 'value' field: py is "int" or "bool"; a bool holds 1
\* for True and 0 for False.
PyStr(v) ==
    CASE v.py = "bool" /\ v.n = 1 -> <<"T","r","u","e">>
      [] v.py = "bool" /\ v.n # 1 -> <<"F","a","l","s","e">>
      [] v.py = "int" /\ v.n < 0  -> <<"-">> \o NatToDigits(0 - v.n)
      [] OTHER                    -> NatToDigits(v.n)

UCASE ==
    <<"A","B","C","D","E","F","G","H","I","J","K","L","M",
      "N","O","P","Q","R","S","T","U","V","W","X","Y","Z">>

LCASE ==
    <<"a","b","c","d","e","f","g","h","i","j","k","l","m",
      "n","o","p","q","r","s","t","u","v","w","x","y","z">>

LowerChar(c) ==
    IF c \in UCASE_LETTER THEN LCASE[CHOOSE k \in 1..26 : UCASE[k] = c] ELSE c

Lower(s) == [k \in 1..Len(s) |-> LowerChar(s[k])]

(***************************************************************************)
(* JSONTransformer: the callbacks, named after the methods.  A node holds  *)
(* the kept children of its rule in order; the lit child is kept as its    *)
(* token with the alias (int or bool) that selects the callback.           *)
(***************************************************************************)
T_int(tok) == [py |-> "int", n |-> PyInt(tok)]

\* bool(str): true of every non-empty token
T_bool_truthy(tok) == [py |-> "bool", n |-> IF tok # <<>> THEN 1 ELSE 0]

T_bool(tok) == [py |-> "bool", n |-> IF tok = K_true THEN 1 ELSE 0]

T_lit(node) == IF node.lit = "int" THEN T_int(node.items[3]) ELSE T_bool(node.items[3])

T_type(tok) == tok

T_init(node) ==
    [op |-> K_init, dest |-> node.items[1], type |-> T_type(node.items[2]),
     value |-> T_lit(node)]

T_const(node) ==
    [op |-> K_const, dest |-> node.items[1], type |-> T_type(node.items[2]),
     value |-> T_lit(node)]

T_aop(node) ==
    [op |-> node.items[3], dest |-> node.items[1], type |-> T_type(node.items[2]),
     args |-> SubSeq(node.items, 4, Len(node.items))]

\* vop with the opcode left among the operands
T_vop_keepsOp(node) ==
    [op |-> node.items[3], dest |-> node.items[1], type |-> T_type(node.items[2]),
     args |-> SubSeq(node.items, 3, Len(node.items))]

T_vop(node) ==
    [op |-> node.items[3], dest |-> node.items[1], type |-> T_type(node.items[2]),
     args |-> SubSeq(node.items, 4, Len(node.items))]

T_eop(node) ==
    [op |-> node.items[1], args |-> SubSeq(node.items, 2, Len(node.items))]

T_label(node) == [label |-> node.items[1]]

T_instr(node) ==
    CASE node.rule = "init"  -> T_init(node)
      [] node.rule = "const" -> T_const(node)
      [] node.rule = "aop"   -> T_aop(node)
      [] node.rule = "vop"   -> T_vop(node)
      [] node.rule = "eop"   -> T_eop(node)
      [] node.rule = "label" -> T_label(node)

T_func(node) ==
    [name |-> node.name,
     instrs |-> [k \in 1..Len(node.instrs) |-> T_instr(node.instrs[k])]]

\* start: {'functions': items}; a Program is held as its list of functions
T_start(tree) == [k \in 1..Len(tree) |-> T_func(tree[k])]

(***************************************************************************)
(* The pretty-printer.  Reading a key a record lacks raises KeyError.      *)
(***************************************************************************)
RECURSIVE Join(_, _)
Join(sep, strs) ==
    IF strs = <<>> THEN <<>>
    ELSE IF Len(strs) = 1 THEN strs[1]
    ELSE strs[1] \o sep \o Join(sep, Tail(strs))

Has(rec, key) == key \in DOMAIN rec

KeyError == [exc |-> "KeyError", s |-> <<>>]

Str(s) == [exc |-> "none", s |-> s]

instr_to_string(instr) ==
    IF ~Has(instr, "op") THEN KeyError
    ELSE IF instr.op = K_const THEN
        IF Has(instr, "dest") /\ Has(instr, "type") /\ Has(instr, "value")
        THEN Str(instr.dest \o <<":", " ">> \o instr.type \o <<" ", "=", " ">>
                 \o K_const \o <<" ">> \o Lower(PyStr(instr.value)))
        ELSE KeyError
    ELSE IF instr.op = K_init THEN
        IF Has(instr, "dest") /\ Has(instr, "type") /\ Has(instr, "value")
        THEN Str(instr.dest \o <<":", " ">> \o instr.type \o <<" ", "=", " ">>
                 \o K_init \o <<" ">> \o Lower(PyStr(instr.value)))
        ELSE KeyError
    ELSE IF Has(instr, "dest") THEN
        IF Has(instr, "type") /\ Has(instr, "args")
        THEN Str(instr.dest \o <<":", " ">> \o instr.type \o <<" ", "=", " ">>
                 \o instr.op \o <<" ">> \o Join(<<" ">>, instr.args))
        ELSE KeyError
    ELSE
        IF Has(instr, "args")
        THEN Str(instr.op \o <<" ">> \o Join(<<" ">>, instr.args))
        ELSE KeyError

\* print(): the line and a newline on standard output
Line(s) == s \o <<"\n">>

print_instr(instr) ==
    Once(instr_to_string(instr), LAMBDA r :
        IF r.exc # "none" THEN r ELSE Str(Line(<<" ", " ">> \o r.s \o <<";">>)))

\* a label indented like an instruction
print_label_indented(label) == Str(Line(<<" ", " ">> \o label.label \o <<":">>))

print_label(label) == Str(Line(label.label \o <<":">>))

\* the loop of print_func from element k on: what it writes, and the
\* exception that ends it, if any
RECURSIVE print_instrs(_, _)
print_instrs(instrs, k) ==
    IF k > Len(instrs) THEN Str(<<>>)
    ELSE LET r == IF Has(instrs[k], "label") THEN print_label(instrs[k])
                  ELSE print_instr(instrs[k])
         IN  IF r.exc # "none" THEN r
             ELSE Once(print_instrs(instrs, k + 1),
                       LAMBDA rest : [exc |-> rest.exc, s |-> r.s \o rest.s])

print_func(func) ==
    LET head == Line(func.name \o <<" ", "{">>)
    IN  Once(print_instrs(func.instrs, 1), LAMBDA body :
            IF body.exc # "none" THEN [exc |-> body.exc, s |-> head \o body.s]
            ELSE Str(head \o body.s \o Line(<<"}">>)))

RECURSIVE print_prog_from(_, _)
print_prog_from(prog, k) ==
    IF k > Len(prog) THEN Str(<<>>)
    ELSE Once(print_func(prog[k]), LAMBDA r :
            IF r.exc # "none" THEN r
            ELSE Once(print_prog_from(prog, k + 1),
                      LAMBDA rest : [exc |-> rest.exc, s |-> r.s \o rest.s]))

print_prog(prog) == print_prog_from(prog, 1)

\* parse_bril: the tree, and the lowered program handed to json.dumps
\* (written here as the program itself), or the exception
parse_bril(t) ==
    LET r == LarkParse(t)
    IN  IF r.exc # "none" THEN [exc |-> r.exc, tree |-> <<>>, data |-> <<>>]
        ELSE [exc |-> "none", tree |-> r.tree, data |-> T_start(r.tree)]

(***************************************************************************)
(* Bounds of the checked inputs.                                           *)
(***************************************************************************)
MaxFuncs == 2

MaxInstrs == 2

MaxArgs == 2

MaxRuns == 2

(***************************************************************************)
(* Names and tokens the inputs are built from.                             *)
(***************************************************************************)
n_main == <<"m","a","i","n">>

n_x == <<"x">>

n_v == <<"v">>

n_b == <<"b">>

n_a0 == <<"a","[","0","]">>

n_loop == <<"l","o","o","p">>

n_int == <<"i","n","t">>

n_bool == <<"b","o","o","l">>

n_id == <<"i","d">>

n_add == <<"a","d","d">>

n_print == <<"p","r","i","n","t">>

n_jmp == <<"j","m","p">>

n_v2a == <<"v","2","a">>

n_a2v == <<"a","2","v">>

l_4 == <<"4">>

l_m42 == <<"-","4","2">>

l_true == <<"t","r","u","e">>

l_false == <<"f","a","l","s","e">>

l_p07 == <<"+","0","7">>

\* the k-th function name: main, f2, f3, ...
FuncName(k) == IF k = 1 THEN n_main ELSE <<"f">> \o NatToDigits(k)

\* the first n of the operands v, x, b, v, x, b, ...
Operands(n) == [k \in 1..n |-> <<n_v, n_x, n_b>>[((k - 1) % 3) + 1]]

(***************************************************************************)
(* Source lines of the text inputs, by token shape:                        *)
(*   assign   <dest> : <type> = <rhs tokens> ;                             *)
(*   effect   <tokens> ;                                                   *)
(*   label    <name> :                                                     *)
(*   raw      any text                                                     *)
(***************************************************************************)
Assign(d, t, rhs) == [shape |-> "assign", dest |-> d, type |-> t, rhs |-> rhs]

Effect(toks) == [shape |-> "effect", toks |-> toks]

Label(n) == [shape |-> "label", name |-> n]

Raw(text) == [shape |-> "raw", text |-> text]

\* x: int = ;
BadLine == <<"x", ":", " ">> \o n_int \o <<" ", "=", " ", ";">>

TextLines ==
    { Label(n_loop),
      Effect(<<n_jmp, n_loop>>),
      Assign(n_b, n_bool, <<K_const, l_false>>),
      Assign(n_b, n_bool, <<K_init, l_true>>),
      Assign(n_x, n_int, <<K_init, l_m42>>),
      Raw(BadLine) }
    \cup { Assign(n_x, n_int, <<n_add>> \o Operands(n)) : n \in {0, MaxArgs} }

\* lines tried alone in a function: identifiers with brackets in each
\* position, a scalar destination with an operand with brackets, an
\* effect without operands, and the words const and init as opcodes
ExtraLines ==
    { Assign(n_x, n_int, <<K_const, n_v>>),
      Effect(<<K_init, n_x>>),
      Assign(n_a0, n_int, <<n_v2a, n_x>>),
      Assign(n_x, n_int, <<n_add, n_v>>),
      Assign(n_x, n_int, <<n_a2v, n_a0>>),
      Assign(n_a0, n_int, <<K_const, l_4>>),
      Assign(n_a0, n_int, <<K_init, l_4>>),
      Assign(n_a0, n_bool, <<K_init, l_true>>),
      Effect(<<n_print, n_a0>>),
      Effect(<<n_print>>),
      Label(n_a0) }

\* Layouts of a text input: "canonical" indents every line of a block by
\* two spaces and separates fields by one space; "loose" uses tabs, leaves
\* out optional spaces, doubles others, and ends lines with comments.
Styles == {"canonical", "loose"}

RenderLine(l, style) ==
    LET indent == IF style = "loose" THEN <<"\t">>
                  ELSE <<" ", " ">>
        sep    == IF style = "loose" THEN <<" ", " ">> ELSE <<" ">>
        colon  == IF style = "loose" THEN <<" ", ":">> ELSE <<":", " ">>
        eq     == IF style = "loose" THEN <<"=">> ELSE <<" ", "=", " ">>
        semi   == IF style = "loose" THEN <<" ", ";", " ", "#", " ", "c", ";">>
                  ELSE <<";">>
    IN  indent \o
        (CASE l.shape = "assign" ->
                l.dest \o colon \o l.type \o eq \o Join(sep, l.rhs) \o semi
           [] l.shape = "effect" -> Join(sep, l.toks) \o semi
           [] l.shape = "label"  ->
                l.name \o (IF style = "loose" THEN <<" ", ":">> ELSE <<":">>)
           [] l.shape = "raw"    -> l.text)
        \o <<"\n">>

RECURSIVE RenderLines(_, _)
RenderLines(ls, style) ==
    IF ls = <<>> THEN <<>>
    ELSE RenderLine(Head(ls), style) \o RenderLines(Tail(ls), style)

RenderFunc(f, style) ==
    f.name \o (IF style = "loose" THEN <<"{", "\n">> ELSE <<" ", "{", "\n">>)
    \o RenderLines(f.lines, style) \o <<"}", "\n">>

RECURSIVE RenderFuncs(_, _)
RenderFuncs(fs, style) ==
    IF fs = <<>> THEN <<>>
    ELSE RenderFunc(Head(fs), style) \o RenderFuncs(Tail(fs), style)

\* the text of a source: its functions, then its top-level tail
Render(src) == RenderFuncs(src.funcs, src.style) \o src.tail

(***************************************************************************)
(* Splitting a flat list of at most MaxInstrs elements over at most        *)
(* MaxFuncs functions: cut[k] is the number of elements in the first k.    *)
(***************************************************************************)
Cuts(f, t) ==
    { c \in [1..f -> 0..t] :
        /\ f > 0 => c[f] = t
        /\ \A k \in 1..(f - 1) : c[k] <= c[k + 1] }

Part(flat, c, k) == SubSeq(flat, (IF k = 1 THEN 0 ELSE c[k - 1]) + 1, c[k])

Flats(pool) == UNION { [1..t -> pool] : t \in 0..MaxInstrs }

\* the sources with the lines flat cut by c into f functions
SourceOf(flat, f, c, style) ==
    [style |-> style, tail |-> <<>>,
     funcs |-> [k \in 1..f |-> [name |-> FuncName(k), lines |-> Part(flat, c, k)]]]

\* the example of the documentation, a malformed top-level line, and an
\* unclosed function
Scenario1 ==
    [style |-> "canonical", tail |-> <<>>,
     funcs |-> <<[name |-> n_main,
                  lines |-> <<Assign(n_v, n_int, <<K_const, l_4>>),
                              Assign(n_x, n_int, <<n_id, n_v>>),
                              Effect(<<n_print, n_x>>)>>]>>]

Scenario4 == [style |-> "canonical", tail |-> BadLine, funcs |-> <<>>]

Unclosed ==
    [style |-> "canonical", funcs |-> <<>>,
     tail |-> n_main \o <<" ", "{", "\n", " ", " ">> \o n_jmp \o <<" ">> \o n_loop
              \o <<";", "\n">>]

OneLine(l, style) ==
    [style |-> style, tail |-> <<>>,
     funcs |-> <<[name |-> n_main, lines |-> <<l>>]>>]

\* a numeral with a sign or a leading zero is not in canonical form
ExtraSources ==
    {Scenario1, Scenario4, Unclosed}
    \cup { OneLine(l, "canonical") : l \in ExtraLines }
    \cup { OneLine(Assign(n_x, n_int, <<K_const, l_p07>>), "loose") }

(***************************************************************************)
(* The JSON programs given to vril2txt: records of the six variants.       *)
(***************************************************************************)
PyIntV(n) == [py |-> "int", n |-> n]

PyBoolV(b) == [py |-> "bool", n |-> IF b THEN 1 ELSE 0]

JLabel(n) == [label |-> n]

JConst(d, t, v) == [op |-> K_const, dest |-> d, type |-> t, value |-> v]

JInit(d, t, v) == [op |-> K_init, dest |-> d, type |-> t, value |-> v]

JValueOp(d, t, op, args) == [op |-> op, dest |-> d, type |-> t, args |-> args]

JEffectOp(op, args) == [op |-> op, args |-> args]

Instrs ==
    { JLabel(n_loop),
      JConst(n_b, n_bool, PyBoolV(TRUE)),
      JInit(n_x, n_int, PyIntV(0 - 42)),
      JInit(n_b, n_bool, PyBoolV(FALSE)),
      JValueOp(n_a0, n_int, n_v2a, <<n_a0, n_x>>) }
    \cup { JValueOp(n_x, n_int, n_add, Operands(n)) : n \in 0..MaxArgs }
    \cup { JEffectOp(n_print, Operands(n)) : n \in {0, MaxArgs} }

ProgramOf(flat, f, c) ==
    [k \in 1..f |-> [name |-> FuncName(k), instrs |-> Part(flat, c, k)]]

\* programs of one function: the example of the documentation, a label
\* and a jump to it, and a ValueOp and an EffectOp whose opcodes are the
\* words const and init
ExtraPrograms ==
    { <<[name |-> n_main, instrs |-> body]>> :
        body \in { <<JConst(n_v, n_int, PyIntV(4)), JValueOp(n_x, n_int, n_id, <<n_v>>),
                     JEffectOp(n_print, <<n_x>>)>>,
                   <<JLabel(n_loop), JEffectOp(n_jmp, <<n_loop>>)>>,
                   <<JValueOp(n_x, n_int, K_const, <<n_v>>)>>,
                   <<JEffectOp(K_init, <<n_x>>)>> } }

(***************************************************************************)
(* The state: the commands vril2json and vril2txt run in a pipeline, each  *)
(* reading what the other wrote.                                           *)
(***************************************************************************)
VARIABLES
    first,   \* "text" or "json": the kind of the first input
    src,     \* the source the first text was written from
    txt,     \* the text last written (the input, or vril2txt's output)
    tree,    \* the parse tree of the text last parsed
    prog,    \* the program last produced (the input, or parse_bril's result)
    exc,     \* the exception that ended the pipeline, or "none"
    pc,      \* "text": txt awaits vril2json; "json": prog awaits vril2txt;
             \* "raised": a command raised exc
    texts,   \* every complete text, in order
    progs    \* every program, in order

vars == <<first, src, txt, tree, prog, exc, pc, texts, progs>>

NoSource == [style |-> "canonical", tail |-> <<>>, funcs |-> <<>>]

InitText ==
    /\ first = "text"
    /\ \/ \E f \in 0..MaxFuncs, flat \in Flats(TextLines), style \in Styles :
            \E c \in Cuts(f, Len(flat)) :
                /\ (f = 0 => flat = <<>>)
                /\ src = SourceOf(flat, f, c, style)
       \/ src \in ExtraSources
    /\ txt = Render(src)
    /\ texts = <<txt>>
    /\ tree = <<>>
    /\ prog = <<>>
    /\ progs = <<>>
    /\ exc = "none"
    /\ pc = "text"

InitJson ==
    /\ first = "json"
    /\ src = NoSource
    /\ \/ \E f \in 0..MaxFuncs, flat \in Flats(Instrs) :
            \E c \in Cuts(f, Len(flat)) :
                /\ (f = 0 => flat = <<>>)
                /\ prog = ProgramOf(flat, f, c)
       \/ prog \in ExtraPrograms
    /\ progs = <<prog>>
    /\ txt = <<>>
    /\ tree = <<>>
    /\ texts = <<>>
    /\ exc = "none"
    /\ pc = "json"

Init == InitText \/ InitJson

Runs == Len(texts) + Len(progs) - 1

\* vril2json: print(parse_bril(sys.stdin.read()))
vril2json ==
    /\ pc = "text"
    /\ Runs < MaxRuns
    /\ LET r == parse_bril(txt)
       IN  IF r.exc # "none"
           THEN /\ pc' = "raised"
                /\ exc' = r.exc
                /\ UNCHANGED <<tree, prog, progs>>
           ELSE /\ pc' = "json"
                /\ tree' = r.tree
                /\ prog' = r.data
                /\ progs' = Append(progs, r.data)
                /\ exc' = exc
    /\ UNCHANGED <<first, src, txt, texts>>

\* vril2txt: print_prog(json.load(sys.stdin))
vril2txt ==
    /\ pc = "json"
    /\ Runs < MaxRuns
    /\ LET r == print_prog(prog)
       IN  /\ txt' = r.s
           /\ IF r.exc # "none"
              THEN /\ pc' = "raised"
                   /\ exc' = r.exc
                   /\ texts' = texts
              ELSE /\ pc' = "text"
                   /\ texts' = Append(texts, r.s)
                   /\ exc' = exc
    /\ UNCHANGED <<first, src, tree, prog, progs>>

Next == vril2json \/ vril2txt

Spec == Init /\ [][Next]_vars

SpecText == InitText /\ [][Next]_vars

SpecJson == InitJson /\ [][Next]_vars

(***************************************************************************)
(* Vocabulary of the properties.                                           *)
(***************************************************************************)
HasBracket(id) == \E k \in 1..Len(id) : id[k] \in {"[", "]"}

IntLitToks == {l_4, l_m42, l_p07}

LitToks == IntLitToks \cup {l_true, l_false}

\* <dest> : <type> = <word> <literal> ;  with a scalar destination
LitShape(l, word) ==
    /\ l.shape = "assign"
    /\ Len(l.rhs) = 2
    /\ l.rhs[1] = word
    /\ l.rhs[2] \in LitToks
    /\ ~HasBracket(l.dest)

\* the positions (function, line) of a source
Places(s) ==
    UNION { { <<k, j>> : j \in 1..Len(s.funcs[k].lines) } : k \in 1..Len(s.funcs) }

LineAt(s, pl) == s.funcs[pl[1]].lines[pl[2]]

\* the first text was accepted and progs[1] is its lowering
Accepted == first = "text" /\ Len(progs) >= 1

\* progs[1] has a record for every place of the source
SameShape(s, p) ==
    /\ Len(p) = Len(s.funcs)
    /\ \A k \in 1..Len(p) : Len(p[k].instrs) = Len(s.funcs[k].lines)

RecAt(p, pl) == p[pl[1]].instrs[pl[2]]

(***************************************************************************)
(* C3.  Priority disambiguation: in an accepted text, every instruction    *)
(* of the shape  IDENT : type = init <lit> ;  lowers to an Init record     *)
(* (op init, dest, type, value; no args), also when <lit> is true or       *)
(* false, which the vop and aop rules match as an identifier; and every    *)
(* IDENT : type = const <lit> ;  lowers to a Const record.                 *)
(***************************************************************************)
IsLitRecord(r, word, l) ==
    /\ DOMAIN r = {"op", "dest", "type", "value"}
    /\ r.op = word
    /\ r.dest = l.dest
    /\ r.type = l.type

C3_PriorityDisambiguation ==
    Accepted =>
        /\ SameShape(src, progs[1])
        /\ \A pl \in Places(src) :
              /\ LitShape(LineAt(src, pl), K_init) =>
                     IsLitRecord(RecAt(progs[1], pl), K_init, LineAt(src, pl))
              /\ LitShape(LineAt(src, pl), K_const) =>
                     IsLitRecord(RecAt(progs[1], pl), K_const, LineAt(src, pl))

\* an accepted text with  b: bool = init true;  lowered to an Init
C3_Witness ==
    /\ Accepted
    /\ \E pl \in Places(src) :
          /\ LitShape(LineAt(src, pl), K_init)
          /\ LineAt(src, pl).rhs[2] = l_true
          /\ RecAt(progs[1], pl).op = K_init
          /\ "value" \in DOMAIN RecAt(progs[1], pl)

(***************************************************************************)
(* C9.  Order- and shape-preserving lowering: for every accepted text,     *)
(* each lowered function has its source name and one record per source     *)
(* instruction or label, in source order; a label lowers to its name; an   *)
(* instruction with a destination has dest, type, op equal to the first    *)
(* token after "=", and (when not a literal instruction) args equal to     *)
(* the remaining tokens in order; an effect instruction lowers to op and   *)
(* args only.  The example text lowers to the documented program.          *)
(***************************************************************************)
LoweredFrom(l, r) ==
    CASE l.shape = "label"  -> r = [label |-> l.name]
      [] l.shape = "effect" -> r = [op |-> Head(l.toks), args |-> Tail(l.toks)]
      [] l.shape = "assign" ->
           IF LitShape(l, K_init) \/ LitShape(l, K_const)
           THEN /\ DOMAIN r = {"op", "dest", "type", "value"}
                /\ r.op = Head(l.rhs) /\ r.dest = l.dest /\ r.type = l.type
           ELSE r = [op |-> Head(l.rhs), dest |-> l.dest, type |-> l.type,
                     args |-> Tail(l.rhs)]
      [] OTHER -> FALSE

Scenario1Program ==
    <<[name |-> n_main,
       instrs |-> <<[op |-> K_const, dest |-> n_v, type |-> n_int,
                     value |-> [py |-> "int", n |-> 4]],
                    [op |-> n_id, dest |-> n_x, type |-> n_int, args |-> <<n_v>>],
                    [op |-> n_print, args |-> <<n_x>>]>>]>>

C9_LoweringPreservesOrderAndShape ==
    /\ Accepted =>
          /\ SameShape(src, progs[1])
          /\ \A k \in 1..Len(src.funcs) : progs[1][k].name = src.funcs[k].name
          /\ \A pl \in Places(src) : LoweredFrom(LineAt(src, pl), RecAt(progs[1], pl))
    /\ (first = "text" /\ src = Scenario1 /\ pc # "text") =>
          (Len(progs) >= 1 /\ progs[1] = Scenario1Program)

\* an accepted text of two functions, the first with two operands in order
\* and a label after it
C9_Witness ==
    /\ Accepted
    /\ Len(src.funcs) = 2
    /\ Len(src.funcs[1].lines) = 2
    /\ src.funcs[1].lines[1] = Assign(n_x, n_int, <<n_add, n_v, n_x>>)
    /\ src.funcs[1].lines[2] = Label(n_loop)
    /\ src.style = "loose"
    /\ progs[1][1].instrs[1].args = <<n_v, n_x>>

(***************************************************************************)
(* C8.  Atomic syntax failure: for an input text that cannot be derived    *)
(* from the grammar (a line  x: int = ;  in a function or at the top       *)
(* level, an unclosed function, an identifier with brackets where the      *)
(* grammar has IDENT), parse_bril raises the parser's exception and no     *)
(* tree and no program, whole or partial, is produced.                     *)
(***************************************************************************)
\* an identifier with brackets as a label name, as an operand of an
\* effect instruction, or as the destination of an init or const of an
\* integer literal
BracketMisuse(l) ==
    \/ l.shape = "label" /\ HasBracket(l.name)
    \/ l.shape = "effect" /\ \E k \in 2..Len(l.toks) : HasBracket(l.toks[k])
    \/ /\ l.shape = "assign"
       /\ Len(l.rhs) = 2
       /\ l.rhs[1] \in {K_init, K_const}
       /\ l.rhs[2] \in IntLitToks
       /\ HasBracket(l.dest)

Malformed(s) ==
    \/ s.tail # <<>>
    \/ \E pl \in Places(s) : LineAt(s, pl).shape = "raw" \/ BracketMisuse(LineAt(s, pl))

C8_AtomicSyntaxFailure ==
    (first = "text" /\ Malformed(src)) =>
        /\ pc \in {"text", "raised"}
        /\ pc = "text" => Runs = 0
        /\ pc = "raised" => exc = "UnexpectedInput"
        /\ tree = <<>>
        /\ prog = <<>>
        /\ progs = <<>>

\* the exception was raised on a text whose first line is well-formed and
\* whose second line is  x: int = ;
C8_Witness ==
    /\ first = "text"
    /\ pc = "raised"
    /\ Len(src.funcs) >= 1
    /\ Len(src.funcs[1].lines) = 2
    /\ src.funcs[1].lines[1] = Label(n_loop)
    /\ src.funcs[1].lines[2] = Raw(BadLine)

(***************************************************************************)
(* C4.  Identifier classes.                                                *)
(***************************************************************************)
\* every kept token of the nodes of the tree satisfies P(rule, position, token)
AllNodes(P(_, _, _)) ==
    \A k \in 1..Len(tree) : \A j \in 1..Len(tree[k].instrs) :
        \A m \in 1..Len(tree[k].instrs[j].items) :
            P(tree[k].instrs[j].rule, m, tree[k].instrs[j].items[m])

\* a destination or operand position of an aop node
AopIdPosition(rule, m) == rule = "aop" /\ (m = 1 \/ m >= 4)

ScalarOutsideAop(rule, m, tok) == rule # "aop" => ~HasBracket(tok)

BracketsInAop(rule, m, tok) == AopIdPosition(rule, m) => HasBracket(tok)

\* C4 as claimed: an identifier with brackets is rejected wherever a
\* scalar identifier is required, and a scalar identifier is rejected in
\* the destination and operand positions of aop.
C4_Original ==
    /\ (first = "text" /\ \E pl \in Places(src) : BracketMisuse(LineAt(src, pl)))
          => (progs = <<>> /\ pc \in {"text", "raised"})
    /\ (first = "text" /\ Len(progs) = 1) =>
          (AllNodes(ScalarOutsideAop) /\ AllNodes(BracketsInAop))

\* a line  <dest> : <type> = <op> <operands> ;  whose operands are all
\* identifiers (true and false are) and where some but not all of the
\* destination and operands have brackets
MixedAop(l) ==
    /\ l.shape = "assign"
    /\ \A k \in 2..Len(l.rhs) : l.rhs[k] \notin IntLitToks
    /\ \E id \in {l.dest} \cup {l.rhs[k] : k \in 2..Len(l.rhs)} : HasBracket(id)
    /\ \E id \in {l.dest} \cup {l.rhs[k] : k \in 2..Len(l.rhs)} : ~HasBracket(id)

(***************************************************************************)
(* C4, amended.  The parser rejects an identifier with "[" or "]" as a     *)
(* label name, as an operand of an eop and as the destination of an init   *)
(* or const of an integer literal, and no node of the rules init, const,   *)
(* vop, eop and label holds a token with brackets; but a scalar            *)
(* identifier is accepted in the destination and operand positions of      *)
(* aop: a text whose lines all mix identifiers with and without brackets   *)
(* is accepted, every line by the rule aop, and every aop node holds an    *)
(* identifier with brackets.                                               *)
(***************************************************************************)
C4_IdentifierClasses ==
    /\ (first = "text" /\ \E pl \in Places(src) : BracketMisuse(LineAt(src, pl)))
          => (progs = <<>> /\ pc \in {"text", "raised"})
    /\ (first = "text" /\ Len(progs) = 1) =>
          /\ AllNodes(ScalarOutsideAop)
          /\ \A k \in 1..Len(tree) : \A j \in 1..Len(tree[k].instrs) :
                tree[k].instrs[j].rule = "aop" =>
                    \E m \in 1..Len(tree[k].instrs[j].items) :
                        HasBracket(tree[k].instrs[j].items[m])
    /\ (first = "text" /\ src.tail = <<>>
          /\ \A pl \in Places(src) : MixedAop(LineAt(src, pl))) =>
          /\ exc # "UnexpectedInput"
          /\ pc # "text" => Len(progs) >= 1
          /\ Len(progs) = 1 =>
                /\ SameShape(src, progs[1])
                /\ \A k \in 1..Len(tree) : \A j \in 1..Len(tree[k].instrs) :
                      tree[k].instrs[j].rule = "aop"

\* a[0]: int = v2a x;  was accepted by aop with the scalar operand x
C4_Witness ==
    /\ first = "text"
    /\ Len(progs) = 1
    /\ \E k \in 1..Len(tree) : \E j \in 1..Len(tree[k].instrs) :
          /\ tree[k].instrs[j].rule = "aop"
          /\ tree[k].instrs[j].items[1] = n_a0
          /\ tree[k].instrs[j].items[4] = n_x
          /\ prog[k].instrs[j].args = <<n_x>>

(***************************************************************************)
(* C10.  Printer totality on parser output, as claimed: print_prog of a    *)
(* program that parse_bril produced from an accepted text raises nothing.  *)
(***************************************************************************)
C10_Original == first = "text" => exc # "KeyError"

(***************************************************************************)
(* C2.  Round trip text -> program -> text, as claimed, on the texts       *)
(* without labels: printing the lowering of an accepted text in canonical  *)
(* form succeeds and reproduces the text exactly.                          *)
(***************************************************************************)
NoLabels(s) == \A pl \in Places(s) : LineAt(s, pl).shape # "label"

C2_Original ==
    (Accepted /\ src.style = "canonical" /\ NoLabels(src)) =>
        /\ exc = "none"
        /\ Len(texts) >= 2 => texts[2] = texts[1]

(***************************************************************************)
(* What a run of vril2txt wrote, line by line, against what it was given.  *)
(***************************************************************************)
\* the lines of a text, each without its newline
RECURSIVE SplitLines(_)
SplitLines(t) ==
    IF t = <<>> THEN <<>>
    ELSE LET e == ScanUntil(t, 1, {"\n"})
         IN  <<SubSeq(t, 1, e - 1)>> \o SplitLines(SubSeq(t, e + 1, Len(t)))

\* the elements of a program in printing order: per function its header,
\* its instructions and labels, and its closing brace
ElemsOfFunc(f) ==
    <<[kind |-> "head", name |-> f.name]>>
    \o [j \in 1..Len(f.instrs) |-> [kind |-> "instr", rec |-> f.instrs[j]]]
    \o <<[kind |-> "close"]>>

RECURSIVE Elems(_)
Elems(p) == IF p = <<>> THEN <<>> ELSE ElemsOfFunc(Head(p)) \o Elems(Tail(p))

\* the runs of vril2txt so far: the program given, the text written, and
\* whether the run completed (done) or raised
Prints ==
    LET off == IF first = "text" THEN 1 ELSE 0
    IN  { [p |-> progs[n], out |-> texts[n + off], done |-> TRUE] :
            n \in { m \in 1..Len(progs) : m + off <= Len(texts) } }
        \cup
        (IF pc = "raised" /\ exc = "KeyError"
         THEN {[p |-> prog, out |-> txt, done |-> FALSE]} ELSE {})

\* every line written renders, by LineOK, the element at its place
LinesRender(LineOK(_, _)) ==
    \A r \in Prints :
        LET lines == SplitLines(r.out)
            elems == Elems(r.p)
        IN  /\ Len(lines) <= Len(elems)
            /\ r.done => Len(lines) = Len(elems)
            /\ ~r.done => Len(lines) < Len(elems)
            /\ \A i \in 1..Len(lines) : LineOK(elems[i], lines[i])

IsLabel(e) == e.kind = "instr" /\ "label" \in DOMAIN e.rec

IsInstr(e) == e.kind = "instr" /\ "label" \notin DOMAIN e.rec

TwoSpaceIndent(line) ==
    Len(line) >= 3 /\ line[1] = " " /\ line[2] = " " /\ line[3] # " "

BlockFrame(e, line) ==
    /\ e.kind = "head" => line = e.name \o <<" ", "{">>
    /\ e.kind = "close" => line = <<"}">>

\* C5 as claimed: every line of the block, of an instruction or of a
\* label, begins with exactly two spaces, a label being <name>: after them.
C5_LineAsClaimed(e, line) ==
    /\ BlockFrame(e, line)
    /\ e.kind = "instr" => TwoSpaceIndent(line)
    /\ IsLabel(e) => line = <<" ", " ">> \o e.rec.label \o <<":">>

C5_Line(e, line) ==
    /\ BlockFrame(e, line)
    /\ IsInstr(e) => TwoSpaceIndent(line) /\ line[Len(line)] = ";"
    /\ IsLabel(e) => line = e.rec.label \o <<":">>

RECURSIVE SpacedOperands(_)
SpacedOperands(args) ==
    IF args = <<>> THEN <<>> ELSE <<" ">> \o Head(args) \o SpacedOperands(Tail(args))

IsOp(rec) == "args" \in DOMAIN rec /\ "op" \in DOMAIN rec

C6_Line(e, line) ==
    (IsInstr(e) /\ IsOp(e.rec)) =>
        IF "dest" \in DOMAIN e.rec
        THEN line = <<" ", " ">> \o e.rec.dest \o <<":", " ">> \o e.rec.type
                    \o <<" ", "=", " ">> \o e.rec.op
                    \o SpacedOperands(e.rec.args) \o <<";">>
        ELSE line = <<" ", " ">> \o e.rec.op \o SpacedOperands(e.rec.args) \o <<";">>

(***************************************************************************)
(* C6.  Printer instruction format, as claimed: a ValueOp or ArrayOp with  *)
(* any number of operands is written  <dest>: <type> = <opcode>, then      *)
(* each operand preceded by one space, then ";" with no space before it;   *)
(* an EffectOp is written  <opcode>, each operand preceded by one space,   *)
(* then ";" with no space before it.                                       *)
(***************************************************************************)
C6_Original ==
    \A r \in Prints :
        LET lines == SplitLines(r.out)
            elems == Elems(r.p)
        IN  \A i \in 1..Len(lines) : i <= Len(elems) => C6_Line(elems[i], lines[i])

(***************************************************************************)
(* C1.  Round trip program -> text -> program, as claimed: print_prog of   *)
(* a program of the data model succeeds, and parsing and lowering what it  *)
(* wrote gives a program equal to the original.                            *)
(***************************************************************************)
C1_Original ==
    first = "json" =>
        /\ exc = "none"
        /\ Len(progs) >= 2 => progs[2] = progs[1]

(***************************************************************************)
(* C7.  Literal fidelity: a signed decimal token lowers to the int of its  *)
(* signed value (-42 to -42), true to True and false to False; a Const or  *)
(* Init is written  <dest>: <type> = <op> <literal>;  with the decimal     *)
(* numeral of an int and the lowercase keyword of a bool.                  *)
(***************************************************************************)
LitValue(tok) ==
    CASE tok = l_4     -> [py |-> "int", n |-> 4]
      [] tok = l_m42   -> [py |-> "int", n |-> 0 - 42]
      [] tok = l_p07   -> [py |-> "int", n |-> 7]
      [] tok = l_true  -> [py |-> "bool", n |-> 1]
      [] tok = l_false -> [py |-> "bool", n |-> 0]

LitText(v) ==
    CASE v = [py |-> "int", n |-> 4]      -> <<"4">>
      [] v = [py |-> "int", n |-> 0 - 42] -> <<"-", "4", "2">>
      [] v = [py |-> "int", n |-> 7]      -> <<"7">>
      [] v = [py |-> "bool", n |-> 1]     -> <<"t", "r", "u", "e">>
      [] v = [py |-> "bool", n |-> 0]     -> <<"f", "a", "l", "s", "e">>

C7_Line(e, line) ==
    (IsInstr(e) /\ "value" \in DOMAIN e.rec) =>
        line = <<" ", " ">> \o e.rec.dest \o <<":", " ">> \o e.rec.type
               \o <<" ", "=", " ">> \o e.rec.op \o <<" ">> \o LitText(e.rec.value)
               \o <<";">>

C7_LiteralFidelity ==
    /\ Accepted =>
          /\ SameShape(src, progs[1])
          /\ \A pl \in Places(src) :
                (LitShape(LineAt(src, pl), K_init) \/ LitShape(LineAt(src, pl), K_const))
                    => /\ "value" \in DOMAIN RecAt(progs[1], pl)
                       /\ RecAt(progs[1], pl).value = LitValue(LineAt(src, pl).rhs[2])
    /\ \A r \in Prints :
          LET lines == SplitLines(r.out)
              elems == Elems(r.p)
          IN  \A i \in 1..Len(lines) : i <= Len(elems) => C7_Line(elems[i], lines[i])

\* x: int = init -42;  and  b: bool = const false;  were lowered to -42
\* and False and written back
C7_Witness ==
    /\ Accepted
    /\ Len(texts) >= 2
    /\ Len(src.funcs) = 1
    /\ src.funcs[1].lines = <<Assign(n_x, n_int, <<K_init, l_m42>>),
                              Assign(n_b, n_bool, <<K_const, l_false>>)>>
    /\ progs[1][1].instrs[1].value = [py |-> "int", n |-> 0 - 42]
    /\ progs[1][1].instrs[2].value = [py |-> "bool", n |-> 0]

====
